---- MODULE Spec2Model ----
(***************************************************************************)
(* Model of src/main.rs: the OurError type (specifics, optional Suberror   *)
(* relation, backtrace), its chain-building and inspection operations,     *)
(* rendering, and the demonstration driver b / c / d / main.               *)
(*                                                                         *)
(* Errors live in a heap indexed by identifiers.  A value a caller holds   *)
(* in a variable is in `owned`; a value moved into a Box inside another    *)
(* error is no longer in `owned` and is reachable only through the         *)
(* relation of the error that holds it.  Overwriting a relation drops the  *)
(* Box it held, and with it the whole chain below.                         *)
(***************************************************************************)
EXTENDS Integers, FiniteSets, Sequences, TLC

\* Number of errors an arbitrary caller of the library may construct.
MaxNodes == 3

\* The local variables of the driver that hold errors (b: err, ours;
\* d: the two arguments built in place).
MainLocals == {"err", "ours", "extension", "subsequent"}

CallerIds == 1..MaxNodes
MainIds == (MaxNodes + 1)..(MaxNodes + Cardinality(MainLocals))
Ids == CallerIds \cup MainIds

\* Option::None for a reference.
NoneRef == 0

\* Option<Suberror>::None, and Some(Previous(box)) / Some(Constituent(box)).
None == [kind |-> "None", target |-> NoneRef]
Some(k, t) == [kind |-> k, target |-> t]

\* OurErrorKind values (payloads drawn from small sets).
ContextInitError == [tag |-> "ContextInitError", data |-> ""]
InvalidArgument(d) == [tag |-> "InvalidArgument", data |-> d]
IoctlError(d) == [tag |-> "IoctlError", data |-> d]
IoctlResultTooLarge == [tag |-> "IoctlResultTooLarge", data |-> ""]
MetadataIoError(p) == [tag |-> "MetadataIoError", data |-> p]
NoKind == [tag |-> "", data |-> ""]

OurErrorKind ==
    {ContextInitError, InvalidArgument("32"), IoctlError("dm-0"),
     IoctlResultTooLarge, MetadataIoError("/dev/x")}

\* The kinds an arbitrary caller constructs: the variants the driver leaves
\* unused, so that with the driver every variant occurs.
CallerKinds == {IoctlError("dm-0"), MetadataIoError("/dev/x")}

\* Concrete error types a Box<Error> may hold in this program.
ConcreteTypes == {"OurError", "IoError"}
ForeignTypes == {"IoError"}

NoMsg == << >>

VARIABLES
    type,         \* concrete type of each heap object (runtime type identity)
    specifics,    \* OurError.specifics
    source_impl,  \* OurError.source_impl
    backtrace,    \* OurError.backtrace (the construction site)
    owned,        \* errors held by value in some variable
    pc,           \* position of the driver
    locals,       \* the driver's local variables
    stored,       \* history: the most recent relation-setting call on each node
    replaced,     \* history: relation targets a node held earlier
    msg0          \* history: message of the specifics given to new

heap == <<type, specifics, source_impl, backtrace>>
hist == <<stored, replaced, msg0>>
vars == <<type, specifics, source_impl, backtrace, owned, pc, locals,
          stored, replaced, msg0>>

\* No relation-setting call yet.  Otherwise: the operation, the relation it
\* asks for (kind, target), the target's concrete type and specifics at the
\* call, the kind of the relation the node had before the call, and the value
\* the call returned.
NoStored == [op |-> "none", kind |-> "None", target |-> NoneRef, type |-> "None",
             specifics |-> NoKind, before |-> "None", result |-> NoneRef]

Init ==
    /\ type = [i \in Ids |-> "Unalloc"]
    /\ specifics = [i \in Ids |-> NoKind]
    /\ source_impl = [i \in Ids |-> None]
    /\ backtrace = [i \in Ids |-> "none"]
    /\ owned = {}
    /\ pc = "start"
    /\ locals = [v \in MainLocals |-> NoneRef]
    /\ stored = [i \in Ids |-> NoStored]
    /\ replaced = [i \in Ids |-> {}]
    /\ msg0 = [i \in Ids |-> NoMsg]

----------------------------------------------------------------------------
\* Rendering

\* impl Display for OurErrorKind
OurErrorKind_fmt(k) ==
    CASE k.tag = "ContextInitError" -> <<"DM context not initialized">>
      [] k.tag = "InvalidArgument" -> <<"invalid argument: ", k.data>>
      [] k.tag = "IoctlError" -> <<"ioctl error, device info: ", k.data>>
      [] k.tag = "IoctlResultTooLarge" ->
            <<"ioctl result too large for maximum buffer size 4294967295 bytes">>
      [] k.tag = "MetadataIoError" ->
            <<"failed to stat metadata for device at ", k.data>>
      [] OTHER -> NoMsg

\* OurError_fmt with the message of the relation target appended.
OurError_fmt_chain(n) ==
    OurErrorKind_fmt(specifics[n])
        \o (IF source_impl[n].kind = "None" THEN NoMsg
            ELSE <<": ">> \o OurErrorKind_fmt(specifics[source_impl[n].target]))

\* impl Display for OurError
OurError_fmt(n) == OurErrorKind_fmt(specifics[n])

----------------------------------------------------------------------------
\* Inspection

\* previous that ignores the kind of the relation.
previous_any(n) ==
    IF source_impl[n].kind # "None" THEN source_impl[n].target ELSE NoneRef

\* OurError::previous
previous(n) ==
    IF source_impl[n].kind = "Previous" THEN source_impl[n].target ELSE NoneRef

\* OurError::constituent
constituent(n) ==
    IF source_impl[n].kind = "Constituent" THEN source_impl[n].target ELSE NoneRef

\* Error::source for OurError
source(n) ==
    IF source_impl[n].kind = "None" THEN NoneRef
    ELSE CASE source_impl[n].kind = "Previous" -> source_impl[n].target
           [] source_impl[n].kind = "Constituent" -> source_impl[n].target

\* Error::cause for OurError
cause(n) ==
    IF source_impl[n].kind = "None" THEN NoneRef
    ELSE CASE source_impl[n].kind = "Previous" -> source_impl[n].target
           [] source_impl[n].kind = "Constituent" -> source_impl[n].target

\* OurError::our_backtrace
our_backtrace(n) == backtrace[n]

\* downcast_ref::<U>() on a reference to an error: the object itself when its
\* concrete type is U, nothing otherwise.
downcast_ref(t, U) == IF type[t] = U THEN t ELSE NoneRef

----------------------------------------------------------------------------
\* Ownership

\* The objects of the chain that starts at n (n included), following the
\* relation targets for at most `fuel` steps.
RECURSIVE Chain(_, _)
Chain(n, fuel) ==
    IF n = NoneRef \/ fuel = 0 THEN {}
    ELSE {n} \cup Chain(source_impl[n].target, fuel - 1)

\* Everything a node's relation owns.
Owns(n) == Chain(source_impl[n].target, Cardinality(Ids))

\* The smallest identifier of S not yet given to an object.
HasFresh(S) == \E i \in S : type[i] = "Unalloc"
Fresh(S) ==
    CHOOSE i \in S : type[i] = "Unalloc" /\ \A j \in S : type[j] = "Unalloc" => i <= j

\* node.source_impl = rel; the value the field held before is dropped, and
\* with it every object it owned.
Assign(node, rel) ==
    LET D == Owns(node) \ {node} IN
    /\ type' = [i \in Ids |-> IF i \in D THEN "Dropped" ELSE type[i]]
    /\ specifics' = [i \in Ids |-> IF i \in D THEN NoKind ELSE specifics[i]]
    /\ source_impl' = [i \in Ids |->
                         IF i \in D THEN None
                         ELSE IF i = node THEN rel ELSE source_impl[i]]
    /\ backtrace' = [i \in Ids |-> IF i \in D THEN "none" ELSE backtrace[i]]

\* History of the call op(self, arg), which asks for `node` to get the
\* relation k to t, and returned `result`.
Relate(op, node, k, t, result) ==
    LET D == Owns(node) \ {node} IN
    /\ stored' = [i \in Ids |->
                    IF i \in D THEN NoStored
                    ELSE IF i = node
                         THEN [op |-> op, kind |-> k, target |-> t, type |-> type[t],
                               specifics |-> specifics[t],
                               before |-> source_impl[node].kind, result |-> result]
                    ELSE stored[i]]
    /\ replaced' = [i \in Ids |->
                    IF i \in D THEN {}
                    ELSE IF i = node /\ source_impl[i].kind # "None"
                         THEN replaced[i] \cup {source_impl[i].target}
                    ELSE replaced[i]]
    /\ msg0' = [i \in Ids |-> IF i \in D THEN NoMsg ELSE msg0[i]]

----------------------------------------------------------------------------
\* Construction

\* new that starts with a relation to the error itself.
new_linked(id, kind, site) ==
    /\ type[id] = "Unalloc"
    /\ type' = [type EXCEPT ![id] = "OurError"]
    /\ specifics' = [specifics EXCEPT ![id] = kind]
    /\ source_impl' = [source_impl EXCEPT ![id] = Some("Previous", id)]
    /\ backtrace' = [backtrace EXCEPT ![id] = site]
    /\ owned' = owned \cup {id}
    /\ msg0' = [msg0 EXCEPT ![id] = OurErrorKind_fmt(kind)]
    /\ UNCHANGED <<stored, replaced>>

\* OurError::new(kind), called at `site`; the new value is object `id`.
new(id, kind, site) ==
    /\ type[id] = "Unalloc"
    /\ type' = [type EXCEPT ![id] = "OurError"]
    /\ specifics' = [specifics EXCEPT ![id] = kind]
    /\ source_impl' = [source_impl EXCEPT ![id] = None]
    /\ backtrace' = [backtrace EXCEPT ![id] = site]
    /\ owned' = owned \cup {id}
    /\ msg0' = [msg0 EXCEPT ![id] = OurErrorKind_fmt(kind)]
    /\ UNCHANGED <<stored, replaced>>

\* std::io::Error::new(..): an error of a foreign concrete type.
foreign_new(id, T) ==
    /\ type[id] = "Unalloc"
    /\ type' = [type EXCEPT ![id] = T]
    /\ owned' = owned \cup {id}
    /\ UNCHANGED <<specifics, source_impl, backtrace, stored, replaced, msg0>>

----------------------------------------------------------------------------
\* Chain building

\* set_extension with the operands the wrong way round.
set_extension_swapped(self, extension) ==
    /\ self \in owned /\ extension \in owned /\ self # extension
    /\ type[self] = "OurError" /\ type[extension] = "OurError"
    /\ Assign(self, Some("Constituent", extension))
    /\ owned' = owned \ {extension}
    /\ Relate("set_extension", extension, "Constituent", self, self)

\* set_extension that files the error as a previous one.
set_extension_previous(self, extension) ==
    /\ self \in owned /\ extension \in owned /\ self # extension
    /\ type[self] = "OurError" /\ type[extension] = "OurError"
    /\ Assign(extension, Some("Previous", self))
    /\ owned' = owned \ {self}
    /\ Relate("set_extension", extension, "Constituent", self, extension)

\* OurError::set_extension(self, extension) -> extension
set_extension(self, extension) ==
    /\ self \in owned /\ extension \in owned /\ self # extension
    /\ type[self] = "OurError" /\ type[extension] = "OurError"
    /\ Assign(extension, Some("Constituent", self))
    /\ owned' = owned \ {self}
    /\ Relate("set_extension", extension, "Constituent", self, extension)

\* set_subsequent that files the error as a constituent.
set_subsequent_constituent(self, subsequent) ==
    /\ self \in owned /\ subsequent \in owned /\ self # subsequent
    /\ type[self] = "OurError" /\ type[subsequent] = "OurError"
    /\ Assign(subsequent, Some("Constituent", self))
    /\ owned' = owned \ {self}
    /\ Relate("set_subsequent", subsequent, "Previous", self, subsequent)

\* set_subsequent that leaves the caller holding self.
set_subsequent_shared(self, subsequent) ==
    /\ self \in owned /\ subsequent \in owned /\ self # subsequent
    /\ type[self] = "OurError" /\ type[subsequent] = "OurError"
    /\ Assign(subsequent, Some("Previous", self))
    /\ owned' = owned
    /\ Relate("set_subsequent", subsequent, "Previous", self, subsequent)

\* OurError::set_subsequent(self, subsequent) -> subsequent
set_subsequent(self, subsequent) ==
    /\ self \in owned /\ subsequent \in owned /\ self # subsequent
    /\ type[self] = "OurError" /\ type[subsequent] = "OurError"
    /\ Assign(subsequent, Some("Previous", self))
    /\ owned' = owned \ {self}
    /\ Relate("set_subsequent", subsequent, "Previous", self, subsequent)

\* set_constituent that keeps a relation the error already has.
set_constituent_once(self, c) ==
    /\ self \in owned /\ c \in owned /\ self # c
    /\ type[self] = "OurError" /\ type[c] \in ConcreteTypes
    /\ IF source_impl[self].kind = "None"
       THEN Assign(self, Some("Constituent", c))
       ELSE UNCHANGED heap
    /\ owned' = owned \ {c}
    /\ Relate("set_constituent", self, "Constituent", c, NoneRef)

\* OurError::set_constituent(&mut self, constituent)
set_constituent(self, c) ==
    /\ self \in owned /\ c \in owned /\ self # c
    /\ type[self] = "OurError" /\ type[c] \in ConcreteTypes
    /\ Assign(self, Some("Constituent", c))
    /\ owned' = owned \ {c}
    /\ Relate("set_constituent", self, "Constituent", c, NoneRef)

\* set_previous that keeps a relation the error already has.
set_previous_once(self, p) ==
    /\ self \in owned /\ p \in owned /\ self # p
    /\ type[self] = "OurError" /\ type[p] \in ConcreteTypes
    /\ IF source_impl[self].kind = "None"
       THEN Assign(self, Some("Previous", p))
       ELSE UNCHANGED heap
    /\ owned' = owned \ {p}
    /\ Relate("set_previous", self, "Previous", p, NoneRef)

\* set_previous that keeps the kind of a relation the error already has.
set_previous_keep_kind(self, p) ==
    /\ self \in owned /\ p \in owned /\ self # p
    /\ type[self] = "OurError" /\ type[p] \in ConcreteTypes
    /\ Assign(self, Some(IF source_impl[self].kind = "None" THEN "Previous"
                         ELSE "Constituent", p))
    /\ owned' = owned \ {p}
    /\ Relate("set_previous", self, "Previous", p, NoneRef)

\* OurError::set_previous(&mut self, previous)
set_previous(self, p) ==
    /\ self \in owned /\ p \in owned /\ self # p
    /\ type[self] = "OurError" /\ type[p] \in ConcreteTypes
    /\ Assign(self, Some("Previous", p))
    /\ owned' = owned \ {p}
    /\ Relate("set_previous", self, "Previous", p, NoneRef)

----------------------------------------------------------------------------
\* An arbitrary caller of the library

CallNew ==
    /\ HasFresh(CallerIds)
    /\ \E kind \in CallerKinds : new(Fresh(CallerIds), kind, "caller")
    /\ UNCHANGED <<pc, locals>>

CallForeignNew ==
    /\ HasFresh(CallerIds)
    /\ \E T \in ForeignTypes : foreign_new(Fresh(CallerIds), T)
    /\ UNCHANGED <<pc, locals>>

CallSetExtension ==
    /\ \E self, extension \in CallerIds : set_extension(self, extension)
    /\ UNCHANGED <<pc, locals>>

CallSetSubsequent ==
    /\ \E self, subsequent \in CallerIds : set_subsequent(self, subsequent)
    /\ UNCHANGED <<pc, locals>>

CallSetConstituent ==
    /\ \E self, c \in CallerIds : set_constituent(self, c)
    /\ UNCHANGED <<pc, locals>>

CallSetPrevious ==
    /\ \E self, p \in CallerIds : set_previous(self, p)
    /\ UNCHANGED <<pc, locals>>

----------------------------------------------------------------------------
\* The driver: b, c, d and main

\* b: let err = std::io::Error::new(Other, "oh no!")
b_err ==
    /\ pc = "start"
    /\ foreign_new(Fresh(MainIds), "IoError")
    /\ locals' = [locals EXCEPT !["err"] = Fresh(MainIds)]
    /\ pc' = "b_ours"

\* b: let mut ours = OurError::new(ContextInitError)
b_ours ==
    /\ pc = "b_ours"
    /\ new(Fresh(MainIds), ContextInitError, "b")
    /\ locals' = [locals EXCEPT !["ours"] = Fresh(MainIds)]
    /\ pc' = "b_set"

\* b: ours.set_constituent(Box::new(err)); Err(ours), passed up through c
b_set ==
    /\ pc = "b_set"
    /\ set_constituent(locals["ours"], locals["err"])
    /\ locals' = [locals EXCEPT !["err"] = NoneRef]
    /\ pc' = "d_new_ext"

\* d: OurError::new(InvalidArgument { description: "32" })
d_new_ext ==
    /\ pc = "d_new_ext"
    /\ new(Fresh(MainIds), InvalidArgument("32"), "d")
    /\ locals' = [locals EXCEPT !["extension"] = Fresh(MainIds)]
    /\ pc' = "d_ext"

\* d: c().expect_err("").set_extension(..)
d_ext ==
    /\ pc = "d_ext"
    /\ set_extension(locals["ours"], locals["extension"])
    /\ locals' = [locals EXCEPT !["ours"] = NoneRef, !["extension"] = stored'[locals["extension"]].result]
    /\ pc' = "d_new_sub"

\* d: OurError::new(IoctlResultTooLarge)
d_new_sub ==
    /\ pc = "d_new_sub"
    /\ new(Fresh(MainIds), IoctlResultTooLarge, "d")
    /\ locals' = [locals EXCEPT !["subsequent"] = Fresh(MainIds)]
    /\ pc' = "d_sub"

\* d: .set_subsequent(..); main: let err = d().expect_err("")
d_sub ==
    /\ pc = "d_sub"
    /\ set_subsequent(locals["extension"], locals["subsequent"])
    /\ locals' = [locals EXCEPT !["extension"] = NoneRef, !["subsequent"] = NoneRef,
                                !["err"] = stored'[locals["subsequent"]].result]
    /\ pc' = "main"

\* The four assertions of main on err; expect("") and assert! panic when the
\* value is missing or the comparison fails, and main goes no further.
main_asserts(err) ==
    /\ source(err) # NoneRef
    /\ downcast_ref(source(err), "OurError") # NoneRef
    /\ specifics[downcast_ref(source(err), "OurError")] = InvalidArgument("32")
    /\ downcast_ref(source(err), "IoError") = NoneRef
    /\ previous(err) # NoneRef
    /\ downcast_ref(previous(err), "OurError") # NoneRef
    /\ specifics[downcast_ref(previous(err), "OurError")]
         = specifics[downcast_ref(source(err), "OurError")]
    /\ constituent(err) = NoneRef

main_ok ==
    /\ pc = "main"
    /\ main_asserts(locals["err"])
    /\ pc' = "done"
    /\ UNCHANGED <<heap, owned, locals, hist>>

----------------------------------------------------------------------------

Next ==
    \/ CallNew
    \/ CallForeignNew
    \/ CallSetExtension
    \/ CallSetSubsequent
    \/ CallSetConstituent
    \/ CallSetPrevious

MainNext ==
    \/ b_err
    \/ b_ours
    \/ b_set
    \/ d_new_ext
    \/ d_ext
    \/ d_new_sub
    \/ d_sub
    \/ main_ok

Spec == Init /\ [][Next]_vars

SpecMain == Init /\ [][Next \/ MainNext]_vars

----------------------------------------------------------------------------
\* Properties

N == Cardinality(Ids)
IsOurs(n) == type[n] = "OurError"
Live(n) == type[n] \in ConcreteTypes
Holders(t) == {m \in Ids : source_impl[m].target = t}

TypeOK ==
    /\ type \in [Ids -> ConcreteTypes \cup {"Unalloc", "Dropped"}]
    /\ \A n \in Ids : specifics[n] \in OurErrorKind \cup {NoKind}
    /\ \A n \in Ids : source_impl[n].kind \in {"None", "Previous", "Constituent"}
    /\ \A n \in Ids : source_impl[n].target \in Ids \cup {NoneRef}
    /\ owned \subseteq Ids
    /\ locals \in [MainLocals -> Ids \cup {NoneRef}]

\* C1: an error made by new, to which no linking or setter operation has been
\* applied yet, has no previous error, no constituent and no source.
C1_NewHasNoRelation ==
    \A n \in Ids :
        IsOurs(n) /\ stored[n] = NoStored =>
            /\ previous(n) = NoneRef
            /\ constituent(n) = NoneRef
            /\ source(n) = NoneRef

\* A fresh error next to an error that already has a relation.
C1_Witness ==
    \E n, m \in Ids :
        /\ IsOurs(n) /\ stored[n] = NoStored /\ n \in owned
        /\ IsOurs(m) /\ stored[m] # NoStored

\* C2: a.set_extension(b) returns b; b's constituent() is a, which downcasts
\* to OurError and has the specifics a had at the call; b's previous() is
\* nothing.
C2_SetExtension ==
    \A b \in Ids :
        IsOurs(b) /\ stored[b].op = "set_extension" =>
            /\ stored[b].result = b
            /\ constituent(b) # NoneRef
            /\ constituent(b) = stored[b].target
            /\ downcast_ref(constituent(b), "OurError") = constituent(b)
            /\ specifics[downcast_ref(constituent(b), "OurError")] = stored[b].specifics
            /\ previous(b) = NoneRef

\* set_extension on a b that had a previous error before, or with an a that
\* has a relation of its own.
C2_Witness ==
    \E b \in Ids :
        /\ IsOurs(b) /\ stored[b].op = "set_extension"
        /\ \/ stored[b].before = "Previous"
           \/ source_impl[stored[b].target].kind # "None"

\* C3: a.set_subsequent(b) returns b; b's previous() is a, which downcasts to
\* OurError and has the specifics a had at the call; b's constituent() is
\* nothing.
C3_SetSubsequent ==
    \A b \in Ids :
        IsOurs(b) /\ stored[b].op = "set_subsequent" =>
            /\ stored[b].result = b
            /\ previous(b) # NoneRef
            /\ previous(b) = stored[b].target
            /\ downcast_ref(previous(b), "OurError") = previous(b)
            /\ specifics[downcast_ref(previous(b), "OurError")] = stored[b].specifics
            /\ constituent(b) = NoneRef

\* set_subsequent on a b that had a constituent before, or with an a that has
\* a relation of its own.
C3_Witness ==
    \E b \in Ids :
        /\ IsOurs(b) /\ stored[b].op = "set_subsequent"
        /\ \/ stored[b].before = "Constituent"
           \/ source_impl[stored[b].target].kind # "None"

\* C4: after two or more relation-setting operations on a node, previous(),
\* constituent(), source() and cause() show the target and kind of the most
\* recent one only, and no earlier target is reachable from the node.
C4_LastSetWins ==
    \A n \in Ids :
        IsOurs(n) /\ replaced[n] # {} =>
            /\ source(n) = stored[n].target
            /\ cause(n) = stored[n].target
            /\ previous(n) = (IF stored[n].kind = "Previous"
                              THEN stored[n].target ELSE NoneRef)
            /\ constituent(n) = (IF stored[n].kind = "Constituent"
                                 THEN stored[n].target ELSE NoneRef)
            /\ replaced[n] \cap Chain(n, N) = {}
            /\ \A r \in replaced[n] : ~Live(r)

\* A node whose relation was replaced by one of the other kind.
C4_Witness ==
    \E n \in Ids :
        /\ IsOurs(n) /\ replaced[n] # {}
        /\ stored[n].before \notin {"None", stored[n].kind}

\* C5: source() and cause() give the relation target whenever there is a
\* relation, of either kind, and nothing otherwise; previous() and
\* constituent() are never both present; a present source() is exactly one of
\* the two.
C5_SourceIsTheRelation ==
    \A n \in Ids :
        IsOurs(n) =>
            /\ source_impl[n].kind # "None" =>
                 source(n) = source_impl[n].target /\ source(n) # NoneRef
            /\ source_impl[n].kind = "None" => source(n) = NoneRef
            /\ cause(n) = source(n)
            /\ ~(previous(n) # NoneRef /\ constituent(n) # NoneRef)
            /\ source(n) # NoneRef =>
                 \/ previous(n) = source(n) /\ constituent(n) = NoneRef
                 \/ constituent(n) = source(n) /\ previous(n) = NoneRef

\* A chain with a relation of each kind.
C5_Witness ==
    \E n, m \in Ids :
        /\ IsOurs(n) /\ IsOurs(m)
        /\ previous(n) = m
        /\ constituent(m) # NoneRef

\* C6: a relation target seen through source(), previous() or constituent()
\* downcasts to the concrete type of the error that was stored, giving that
\* error, and to every other concrete type gives nothing.
C6_Downcast ==
    \A n \in Ids :
        IsOurs(n) =>
            \A t \in {source(n), previous(n), constituent(n)} \ {NoneRef} :
                /\ stored[n].type \in ConcreteTypes
                /\ \A U \in ConcreteTypes :
                     downcast_ref(t, U) =
                        (IF U = stored[n].type THEN stored[n].target ELSE NoneRef)

\* A chain holding a target of each concrete type.
C6_Witness ==
    \E n, m \in Ids :
        /\ IsOurs(n) /\ IsOurs(m)
        /\ source(n) = m
        /\ source(m) # NoneRef
        /\ type[source(m)] = "IoError"

\* C7: in the driver's scenario main's assertions pass; the head's previous()
\* and source() are the InvalidArgument{"32"} error, whose constituent() is
\* the ContextInitError error; the head has no constituent; the
\* ContextInitError error's source downcasts to the foreign I/O error type
\* and not to OurError.
C7_Scenario ==
    /\ pc = "main" => main_asserts(locals["err"])
    /\ pc \in {"main", "done"} =>
        LET head == locals["err"]
            p == downcast_ref(previous(head), "OurError")
            c == downcast_ref(constituent(p), "OurError")
        IN  /\ head # NoneRef
            /\ specifics[head] = IoctlResultTooLarge
            /\ previous(head) # NoneRef
            /\ p # NoneRef
            /\ specifics[p] = InvalidArgument("32")
            /\ downcast_ref(source(head), "OurError") = p
            /\ constituent(head) = NoneRef
            /\ constituent(p) # NoneRef
            /\ c # NoneRef
            /\ specifics[c] = ContextInitError
            /\ source(c) # NoneRef
            /\ downcast_ref(source(c), "IoError") # NoneRef
            /\ downcast_ref(source(c), "OurError") = NoneRef

\* The driver has finished while the caller built a chain of its own.
C7_Witness ==
    /\ pc = "done"
    /\ \E n \in CallerIds : IsOurs(n) /\ source(n) # NoneRef

\* C8, as stated: once a node has a relation, its kind never changes.
C8_KindFixed ==
    [][\A n \in Ids :
         IsOurs(n) /\ type'[n] = "OurError" /\ source_impl[n].kind # "None" =>
             source_impl'[n].kind = source_impl[n].kind]_vars

\* C8, amended: once a node has a relation it always has one, and the kind
\* changes only in a step that applies a relation-setting operation to that
\* node, and then to the kind that operation sets.
C8_KindChangesOnlyBySet ==
    [][\A n \in Ids :
         IsOurs(n) /\ type'[n] = "OurError" /\ source_impl[n].kind # "None" =>
             /\ source_impl'[n].kind # "None"
             /\ source_impl'[n].kind # source_impl[n].kind =>
                  /\ stored'[n] # stored[n]
                  /\ source_impl'[n].kind = stored'[n].kind]_vars

\* A node whose relation went from Constituent to Previous.
C8_Witness ==
    \E n \in Ids :
        /\ IsOurs(n)
        /\ stored[n].before = "Constituent"
        /\ source_impl[n].kind = "Previous"

\* C9: the message of an error is the message of its specifics, the one it
\* had when it was made, whatever relation it has or had.
C9_MessageIsSpecifics ==
    \A n \in Ids :
        IsOurs(n) =>
            /\ OurError_fmt(n) = OurErrorKind_fmt(specifics[n])
            /\ OurError_fmt(n) = msg0[n]

\* An error whose relation was replaced, next to one without a relation.
C9_Witness ==
    \E n, m \in Ids :
        /\ IsOurs(n) /\ IsOurs(m)
        /\ stored[n].before # "None" /\ source(n) # NoneRef
        /\ source(m) = NoneRef

\* C10: the relations form simple chains: no object is the target of two
\* nodes, none is reachable from itself, an object is either held by the
\* caller or the target of one live node and never both, and every chain
\* from a held error ends at an object without a relation.
C10_SimpleChains ==
    /\ \A t \in Ids : Cardinality(Holders(t)) <= 1
    /\ \A n \in Ids : n \notin Owns(n)
    /\ \A n \in Ids :
         Live(n) => /\ (n \in owned) # (Holders(n) # {})
                    /\ \A m \in Holders(n) : IsOurs(m)
    /\ \A n \in Ids : ~Live(n) => n \notin owned /\ Holders(n) = {}
    /\ \A n \in owned :
         \E e \in Chain(n, N) : source_impl[e].kind = "None"

\* A held error with a chain of two errors below it.
C10_Witness ==
    \E n \in owned : Cardinality(Chain(n, N)) >= 3

====
